---------------------------- MODULE Spec2Model ----------------------------
(***************************************************************************)
(* Model of the SMS store (src/src/smsdb.c) of chan_quectel: the incoming  *)
(* multi-part reassembly table, the outgoing reference counter and the     *)
(* outgoing delivery-tracking tables.  Every store function runs under    *)
(* SCOPED_TRANSACTION (dblock held from BEGIN to COMMIT), so each call is  *)
(* one atomic action.                                                      *)
(***************************************************************************)
EXTENDS Integers, Sequences, FiniteSets, TLC

VARIABLES
    incoming,       \* table incoming: rows (key, seqorder, expiration, message)
    inHist,         \* history: the smsdb_put calls made so far, with results
    outgoing_ref,   \* table outgoing_ref: key -> refid, NoRow when absent
    refLast,        \* history: last value smsdb_get_refid returned per key
    refPrev,        \* history: the value returned before refLast per key
    outgoing_msg,   \* table outgoing_msg: rows (uid, dev, dst, cnt, expiration, srr)
    outgoing_part,  \* table outgoing_part: rows (rowid, key, msg, status)
    seq_msg,        \* sqlite_sequence of outgoing_msg (AUTOINCREMENT)
    now,            \* CURRENT_TIMESTAMP
    ret,            \* history: the last outgoing call, its arguments and results
    insOrder,       \* history: keys of the stored outgoing parts in insertion order
    settled,        \* history: part keys of messages settled by smsdb_outgoing_part_status
    settledFree,    \* history: those of settled not inserted again since
    lock,           \* pvt->lock: the thread holding the device lock, "none" when free
    terminate_monitor,  \* pvt->terminate_monitor
    monitor_thread, \* pvt->monitor_thread: "null" (AST_PTHREADT_NULL) or "thread"
    mon,            \* position of the monitor thread in monitor_threadproc_pvt
    tps,            \* the serializer: the accepted tasks not yet run, oldest first
    it,             \* history: what the current loop iteration of the monitor saw and pushed
    fin,            \* history: how the monitor thread left the loop and what it held then
    owner,          \* position of the thread that starts and stops the monitor
    worker,         \* the serializer's worker: "idle" or the task it runs under the lock
    tpdata,         \* the payloads of the tasks in tps: the frame of a response task, 0 otherwise
    ser,            \* history: frames received and run, and what the running task reads
    dblock,         \* dblock: the thread holding the store lock, "none" when free
    tx,             \* per calling thread: the store call it is in and what it returned
    smsdb,          \* the store handle: "null", "open" or "closed" (closed, pointer kept)
    schema,         \* the tables and indexes that exist
    stmts,          \* the prepared statements: "none", "some" or "all"
    initHist        \* history: the smsdb_init and smsdb_atexit calls made so far

vars == <<incoming, inHist, outgoing_ref, refLast, refPrev,
          outgoing_msg, outgoing_part, seq_msg, now, ret, insOrder, settled, settledFree,
          lock, terminate_monitor, monitor_thread, mon, tps, it, fin, owner, worker,
          tpdata, ser, dblock, tx, smsdb, schema, stmts, initHist>>

monVars == <<lock, terminate_monitor, monitor_thread, mon, tps, it, fin, owner, worker,
             tpdata, ser>>
txVars   == <<dblock, tx>>
initVars == <<smsdb, schema, stmts, initHist>>
storeVars == <<incoming, inHist, outgoing_ref, refLast, refPrev,
               outgoing_msg, outgoing_part, seq_msg, now, ret, insOrder, settled, settledFree>>

inVars  == <<incoming, inHist>>
refVars == <<outgoing_ref, refLast, refPrev>>
outVars == <<outgoing_msg, outgoing_part, seq_msg, now, ret, insOrder, settled, settledFree>>

-----------------------------------------------------------------------------
(* Bounds of the model and input alphabets *)

MaxParts == 3       \* largest total_parts of an incoming message
MaxCalls == 4       \* smsdb_put calls per behaviour
Ids      == {"A"}                \* device ids (IMSI)
Senders  == {"B"}                \* sender addresses of incoming messages
InRefs   == {7}                  \* reference ids of incoming messages
Texts    == {"Hel", "lo"}        \* part texts
csms_ttl == 600                  \* CONF_GLOBAL(csms_ttl)

NoRow == -1         \* "no such row" / SQL NULL marker of the model

-----------------------------------------------------------------------------
(* Incoming reassembly: smsdb_put *)

\* "%s/%s/%d/%d" of id, addr, ref, parts; ids and addresses hold no '/', so
\* the formatted key is kept as the tuple of its four fields.
InKey(id, addr, ref, parts) == <<id, addr, ref, parts>>

InKeys == {InKey(i, a, r, p) : i \in Ids, a \in Senders, r \in InRefs, p \in 1..MaxParts}

KeyParts(key) == key[4]

\* faulty variant: INSERT OR IGNORE, the old row is kept on a primary-key clash
put_message_ignore(db, key, order, exp, msg) ==
    IF \E r \in db : r.key = key /\ r.seqorder = order
    THEN db
    ELSE db \cup {[key |-> key, seqorder |-> order, expiration |-> exp, message |-> msg]}

\* INSERT OR REPLACE INTO incoming, PRIMARY KEY(key, seqorder)
put_message(db, key, order, exp, msg) ==
    {r \in db : ~(r.key = key /\ r.seqorder = order)}
        \cup {[key |-> key, seqorder |-> order, expiration |-> exp, message |-> msg]}

\* SELECT COUNT(seqorder) FROM incoming WHERE key = ?
get_cnt(db, key) == Cardinality({r \in db : r.key = key})

RECURSIVE ConcatAsc(_)
ConcatAsc(rows) ==
    IF rows = {} THEN ""
    ELSE LET m == CHOOSE r \in rows : \A q \in rows : r.seqorder <= q.seqorder
         IN  m.message \o ConcatAsc(rows \ {m})

RECURSIVE ConcatDesc(_)
ConcatDesc(rows) ==
    IF rows = {} THEN ""
    ELSE LET m == CHOOSE r \in rows : \A q \in rows : r.seqorder >= q.seqorder
         IN  m.message \o ConcatDesc(rows \ {m})

\* faulty variant: ORDER BY seqorder DESC
get_full_message_desc(db, key) == ConcatDesc({r \in db : r.key = key})

\* SELECT message FROM incoming WHERE key = ? ORDER BY seqorder, each row
\* appended to out by stpncpy
get_full_message(db, key) == ConcatAsc({r \in db : r.key = key})

\* faulty variant: the rows past their expiration are deleted as well
clear_messages_and_expired(db, key) == {r \in db : r.key # key /\ ~(r.expiration < now)}

\* DELETE FROM incoming WHERE key = ?
clear_messages(db, key) == {r \in db : r.key # key}

\* smsdb_put: the table after the call, the value returned, whether out was
\* written and what was written to it.  insert_ok = FALSE is a failed bind or
\* step of put_message (res = -1, then overwritten by the count).
smsdb_put(db, id, addr, ref, parts, order, msg, insert_ok) ==
    LET key  == InKey(id, addr, ref, parts)
        db1  == IF insert_ok THEN put_message(db, key, order, now + csms_ttl, msg) ELSE db
        res  == get_cnt(db1, key)
        full == res > 0 /\ order = parts
    IN  [db      |-> IF full THEN clear_messages(db1, key) ELSE db1,
         res     |-> res,
         wrote   |-> full,
         out     |-> IF full THEN get_full_message(db1, key) ELSE "",
         cleared |-> full]

Put ==
    /\ Len(inHist) < MaxCalls
    /\ \E id \in Ids, addr \in Senders, ref \in InRefs, parts \in 1..MaxParts, msg \in Texts :
       \E order \in 1..parts :
          LET r == smsdb_put(incoming, id, addr, ref, parts, order, msg, TRUE)
          IN  /\ incoming' = r.db
              /\ inHist' = Append(inHist,
                     [key |-> InKey(id, addr, ref, parts), order |-> order, msg |-> msg,
                      res |-> r.res, wrote |-> r.wrote, out |-> r.out, cleared |-> r.cleared,
                      ok |-> TRUE])
    /\ UNCHANGED <<refVars, outVars, monVars, txVars, initVars>>

\* smsdb_put when a bind or the step of put_message fails (SQLITE error): the
\* row is not stored, the function logs and goes on to get_cnt
PutFail ==
    /\ Len(inHist) < MaxCalls
    /\ \E id \in Ids, addr \in Senders, ref \in InRefs, parts \in 1..MaxParts, msg \in Texts :
       \E order \in 1..parts :
          LET r == smsdb_put(incoming, id, addr, ref, parts, order, msg, FALSE)
          IN  /\ incoming' = r.db
              /\ inHist' = Append(inHist,
                     [key |-> InKey(id, addr, ref, parts), order |-> order, msg |-> msg,
                      res |-> r.res, wrote |-> r.wrote, out |-> r.out, cleared |-> r.cleared,
                      ok |-> FALSE])
    /\ UNCHANGED <<refVars, outVars, monVars, txVars, initVars>>

\* a set of at most one element as a sequence
SetToSeq(S) == IF S = {} THEN <<>> ELSE <<CHOOSE x \in S : TRUE>>

-----------------------------------------------------------------------------
(* Claims about smsdb_put *)

\* the smsdb_put calls made so far under one key, in call order
CallsFor(key) == SelectSeq(inHist, LAMBDA c : c.key = key)

\* the texts supplied for the orders o..n, joined in ascending order
RECURSIVE JoinOrders(_, _, _)
JoinOrders(cs, o, n) ==
    IF o > n THEN ""
    ELSE LET i == CHOOSE j \in 1..Len(cs) : cs[j].order = o
         IN  cs[i].msg \o JoinOrders(cs, o + 1, n)

\* the calls cs supply each of the orders 1..n exactly once
IsPermutation(cs, n) ==
    /\ Len(cs) = n
    /\ {cs[i].order : i \in 1..Len(cs)} = 1..n

\* the calls cs supply the orders 1, 2, ... in ascending order without gaps
IsAscending(cs) == \A i \in 1..Len(cs) : cs[i].order = i

\* C1: whenever the orders 1..N of a key have each been supplied exactly once,
\* in any arrival order, the last of these calls has written the N texts joined
\* in ascending order and no row of the key remains.
C1_AnyOrderReassembles ==
    \A key \in InKeys :
        LET cs == CallsFor(key)
            n  == KeyParts(key)
        IN  IsPermutation(cs, n) =>
                /\ cs[n].wrote
                /\ cs[n].out = JoinOrders(cs, 1, n)
                /\ get_cnt(incoming, key) = 0

\* C2: a call writes the output or deletes the rows of its key only when the
\* number of rows stored for the key after its insert equals total_parts.
C2_CompleteOnlyWhenAllStored ==
    \A i \in 1..Len(inHist) :
        (inHist[i].wrote \/ inHist[i].cleared) => inHist[i].res = KeyParts(inHist[i].key)

\* C3: when the parts of a key are supplied in ascending order 1..N without
\* duplicates, the k-th call returns k, the calls before the N-th write nothing,
\* the N-th writes the texts joined in order, and then the key has no rows.
C3_AscendingDelivery ==
    \A key \in InKeys :
        LET cs == CallsFor(key)
            n  == KeyParts(key)
        IN  IsAscending(cs) =>
                /\ \A k \in 1..Len(cs) :
                      /\ cs[k].res = k
                      /\ (k < n => ~cs[k].wrote /\ ~cs[k].cleared)
                      /\ (k = n => cs[k].wrote /\ cs[k].out = JoinOrders(cs, 1, n))
                /\ (Len(cs) = n => get_cnt(incoming, key) = 0)
                /\ (Len(cs) < n => get_cnt(incoming, key) = Len(cs))

\* the scenario of the specification: "Hel" then "lo" under a 2-part key
C3_Witness ==
    \E key \in InKeys :
        LET cs == CallsFor(key)
        IN  /\ KeyParts(key) = 2
            /\ Len(cs) = 2
            /\ cs[1].order = 1 /\ cs[1].msg = "Hel" /\ cs[1].res = 1
            /\ cs[2].order = 2 /\ cs[2].msg = "lo" /\ cs[2].res = 2
            /\ cs[2].out = "Hello"
            /\ get_cnt(incoming, key) = 0

\* the last two smsdb_put calls carry the same key and the same order
LastTwoSame ==
    /\ Len(inHist) >= 2
    /\ inHist[Len(inHist)].key = inHist[Len(inHist) - 1].key
    /\ inHist[Len(inHist)].order = inHist[Len(inHist) - 1].order

\* after the second of two equal-order calls: one row of that order, holding
\* the later text, and the same count returned twice
DuplicateReplaces ==
    LET n == Len(inHist)
        c == inHist[n]
    IN  /\ c.res = inHist[n - 1].res
        /\ {r.message : r \in {q \in incoming : q.key = c.key /\ q.seqorder = c.order}}
               = {c.msg}
        /\ Cardinality({q \in incoming : q.key = c.key /\ q.seqorder = c.order}) = 1

\* C4 (as claimed): calling smsdb_put again with the same key and order leaves
\* exactly one row of that order, with the later text, and returns the same count.
C4_DuplicateAnyOrder == LastTwoSame => DuplicateReplaces

\* C4 (amended): the same, for an order other than total_parts.
C4_DuplicateNonFinal ==
    (LastTwoSame /\ inHist[Len(inHist)].order # KeyParts(inHist[Len(inHist)].key))
        => DuplicateReplaces

\* a duplicate of part 2 of 3 with another text, one other part being stored
C4_Witness ==
    /\ LastTwoSame
    /\ inHist[Len(inHist)].order # KeyParts(inHist[Len(inHist)].key)
    /\ inHist[Len(inHist)].msg # inHist[Len(inHist) - 1].msg
    /\ inHist[Len(inHist)].res = 2

\* C12: smsdb_put returns an error code (<= 0) whenever binding or stepping
\* the insert fails; a failed insert is never reported as a positive row count.
C12_FailedInsertReturnsError ==
    \A i \in 1..Len(inHist) : ~inHist[i].ok => inHist[i].res <= 0

\* smsdb_put of the part text msg: the text takes no part in the choice of
\* the rows that are stored or removed
PutText(msg) ==
    /\ Len(inHist) < MaxCalls
    /\ \E id \in Ids, addr \in Senders, ref \in InRefs, parts \in 1..MaxParts :
       \E order \in 1..parts :
          LET r == smsdb_put(incoming, id, addr, ref, parts, order, msg, TRUE)
          IN  /\ incoming' = r.db
              /\ inHist' = Append(inHist,
                     [key |-> InKey(id, addr, ref, parts), order |-> order, msg |-> msg,
                      res |-> r.res, wrote |-> r.wrote, out |-> r.out, cleared |-> r.cleared,
                      ok |-> TRUE])
    /\ UNCHANGED <<refVars, outVars, monVars, txVars, initVars>>

\* CURRENT_TIMESTAMP advances past the expiration of every row stored so far
TickPast ==
    /\ now <= csms_ttl
    /\ incoming # {}
    /\ now' = now + csms_ttl + 1
    /\ UNCHANGED <<incoming, inHist, outgoing_msg, outgoing_part, seq_msg, ret, insOrder,
                   settled, settledFree, refVars, monVars, txVars, initVars>>

\* the step is an smsdb_put call for key with order equal to total_parts
FinalPut(key) ==
    /\ Len(inHist') = Len(inHist) + 1
    /\ inHist'[Len(inHist')].key = key
    /\ inHist'[Len(inHist')].order = KeyParts(key)

\* a part (key, seqorder) that is stored before a step and not after it was
\* removed by a final smsdb_put for its key
RemovedOnlyByFinalPut ==
    \A r \in incoming :
        (\A q \in incoming' : ~(q.key = r.key /\ q.seqorder = r.seqorder)) => FinalPut(r.key)

\* C31: the rows of an incoming message are removed only by an smsdb_put for
\* their key with order equal to total_parts; nothing removes a row because
\* its expiration has passed, so the parts of a message whose final part does
\* not arrive stay in the table.
C31_IncomingRowsNeverExpire == [][RemovedOnlyByFinalPut]_vars

\* a part past its expiration is still stored after a later smsdb_put has
\* completed and cleared another message
C31_Witness ==
    /\ \E r \in incoming : r.expiration < now
    /\ inHist # <<>> /\ inHist[Len(inHist)].cleared
    /\ \E i \in 1..Len(inHist) : inHist[i].key # inHist[Len(inHist)].key

-----------------------------------------------------------------------------
(* Outgoing reference ids: smsdb_get_refid *)

Dests == {"B", "C"}             \* destination addresses of outgoing messages

\* "%s/%s" of id and addr, kept as the pair of its fields
RefKey(id, addr) == <<id, addr>>

Pairs == {RefKey(i, a) : i \in Ids, a \in Dests}

RefidLimit == 256               \* if (res >= 256) res = 0
RefidNotFound == 255            \* res = 255 when the key has no row

\* faulty variant: the wrap-around test is off by one (res > 256)
next_refid_late(res) == IF res + 1 > RefidLimit THEN 0 ELSE res + 1

\* ++res; if (res >= 256) res = 0;
next_refid(res) == IF res + 1 >= RefidLimit THEN 0 ELSE res + 1

\* smsdb_get_refid: SELECT refid (255 and use_insert when no row), increment
\* with wrap-around, then INSERT or UPDATE the row of the key
smsdb_get_refid(db, id, addr) ==
    LET key == RefKey(id, addr)
        cur == IF db[key] = NoRow THEN RefidNotFound ELSE db[key]
        res == next_refid(cur)
    IN  [db |-> [db EXCEPT ![key] = res], res |-> res]

GetRefid ==
    /\ \E id \in Ids, addr \in Dests :
          LET r == smsdb_get_refid(outgoing_ref, id, addr)
              k == RefKey(id, addr)
          IN  /\ outgoing_ref' = r.db
              /\ refLast' = [refLast EXCEPT ![k] = r.res]
              /\ refPrev' = [refPrev EXCEPT ![k] = refLast[k]]
    /\ UNCHANGED <<inVars, outVars, monVars, txVars, initVars>>

\* C5: per (id, addr) pair the values returned are 0, 1, ..., 255, 0, ...: the
\* first is 0 and each later one is the previous plus 1 modulo 256, however the
\* calls for other pairs interleave; the reference stored for a pair is the one
\* last returned for it, so calls for other pairs leave it unchanged.
C5_RefidCycles ==
    \A p \in Pairs :
        /\ refLast[p] = NoRow => refPrev[p] = NoRow /\ outgoing_ref[p] = NoRow
        /\ (refLast[p] # NoRow /\ refPrev[p] = NoRow) => refLast[p] = 0
        /\ refPrev[p] # NoRow => refLast[p] = (refPrev[p] + 1) % 256
        /\ refLast[p] # NoRow => refLast[p] \in 0..255 /\ outgoing_ref[p] = refLast[p]

\* one pair has wrapped from 255 to 0 while the other is in mid-cycle
C5_Witness ==
    \E p, q \in Pairs :
        /\ p # q
        /\ refPrev[p] = 255 /\ refLast[p] = 0
        /\ refLast[q] \in 1..254

-----------------------------------------------------------------------------
(* Outgoing delivery tracking *)

MaxMsgs  == 2                   \* smsdb_outgoing_add calls per behaviour
Cnts     == {1, 2}              \* declared part counts of a message
MaxTime  == 1                   \* last value of the clock
OutDests == {"B"}               \* destinations used by the tracked messages
Mrs      == {1, 2}              \* message references of outgoing parts
Ttls     == {0}                 \* time to live of an outgoing message
Statuses == {0, 32, 96}         \* delivered, still trying, gave up (0x60)

\* "%s/%s/%d" of dev, dst and the message reference
OutKey(dev, dst, mr) == <<dev, dst, mr>>

Bit(st, b) == (st \div b) % 2 = 1

\* faulty variant: the test of bit 0x40 is missing
status_is_final_no40(st) == st # NoRow /\ ~Bit(st, 32)

\* p.status & 64 != 0 OR p.status & 32 = 0; a NULL status makes the test NULL
status_is_final(st) == st # NoRow /\ (Bit(st, 64) \/ ~Bit(st, 32))

\* sqlite3_column_int of a status column: NULL reads as 0
column_int(st) == IF st = NoRow THEN 0 ELSE st

\* rowid given to a row inserted into outgoing_part (no AUTOINCREMENT)
new_rowid(parts) ==
    IF parts = {} THEN 1
    ELSE (CHOOSE r \in {p.rowid : p \in parts} : \A q \in parts : q.rowid <= r) + 1

\* SELECT status FROM outgoing_part WHERE msg = ? ORDER BY rowid, read into
\* status_all; the caller appends -1
RECURSIVE get_all_status(_)
get_all_status(rows) ==
    IF rows = {} THEN <<-1>>
    ELSE LET f == CHOOSE r \in rows : \A q \in rows : r.rowid <= q.rowid
         IN  <<column_int(f.status)>> \o get_all_status(rows \ {f})

\* faulty variant: only the message row is deleted
smsdb_outgoing_clear_nolock_msgonly(msgs, parts, uid) ==
    [msgs |-> {m \in msgs : m.uid # uid}, parts |-> parts, res |-> 0]

\* smsdb_outgoing_clear_nolock: DELETE FROM outgoing_msg WHERE uid = ?, then
\* DELETE FROM outgoing_part WHERE msg = ?
smsdb_outgoing_clear_nolock(msgs, parts, uid) ==
    [msgs  |-> {m \in msgs : m.uid # uid},
     parts |-> {p \in parts : p.msg # uid},
     res   |-> 0]

NoDst == ""                     \* dst left as the caller passed it

\* smsdb_outgoing_add: INSERT INTO outgoing_msg, returns the new uid
smsdb_outgoing_add(msgs, seq, id, addr, cnt, ttl, srr) ==
    [msgs |-> msgs \cup {[uid |-> seq + 1, dev |-> id, dst |-> addr, cnt |-> cnt,
                          expiration |-> now + ttl, srr |-> srr]},
     seq  |-> seq + 1,
     res  |-> seq + 1]

\* smsdb_outgoing_clear: get_dst, then smsdb_outgoing_clear_nolock
smsdb_outgoing_clear(msgs, parts, uid) ==
    LET found == {m \in msgs : m.uid = uid}
    IN  IF found = {}
        THEN [msgs |-> msgs, parts |-> parts, res |-> -1, dst |-> NoDst]
        ELSE LET c == smsdb_outgoing_clear_nolock(msgs, parts, uid)
             IN  [msgs |-> c.msgs, parts |-> c.parts,
                  res |-> IF c.res < 0 THEN -1 ELSE 0,
                  dst |-> (CHOOSE m \in found : TRUE).dst]

\* faulty variant: if (srr) res = -2;
not_trackable_inverted(srr) == srr # 0

\* if (!srr) res = -2;
not_trackable(srr) == srr = 0

\* smsdb_outgoing_part_put
smsdb_outgoing_part_put(msgs, parts, uid, refid) ==
    LET found  == {m \in msgs : m.uid = uid}
        m      == CHOOSE x \in found : TRUE
        res1   == IF found = {} THEN -2 ELSE 0
        srr    == IF found = {} THEN 0 ELSE m.srr
        key    == OutKey(m.dev, m.dst, refid)
        clash  == \E p \in parts : p.key = key
        insert == res1 >= 0 /\ ~clash
        parts1 == IF insert
                  THEN parts \cup {[rowid |-> new_rowid(parts), key |-> key,
                                    msg |-> uid, status |-> NoRow]}
                  ELSE parts
        res2   == IF res1 >= 0 /\ clash THEN -1 ELSE res1
        res3   == IF not_trackable(srr) THEN -2 ELSE res2
        res4   == IF res3 >= 0 /\ m.cnt # Cardinality({p \in parts1 : p.msg = uid})
                  THEN -2 ELSE res3
        c      == smsdb_outgoing_clear_nolock(msgs, parts1, uid)
    IN  [msgs     |-> IF res4 >= 0 THEN c.msgs ELSE msgs,
         parts    |-> IF res4 >= 0 THEN c.parts ELSE parts1,
         written  |-> parts1,
         inserted |-> IF insert THEN {key} ELSE {},
         res      |-> IF res4 >= 0 /\ c.res < 0 THEN -1 ELSE res4,
         dst      |-> IF res4 >= 0 THEN m.dst ELSE NoDst]

NoStatus == <<>>                \* status_all left as the caller passed it

\* smsdb_outgoing_part_status
smsdb_outgoing_part_status(msgs, parts, id, addr, mr, st) ==
    LET key    == OutKey(id, addr, mr)
        hit    == {p \in parts : p.key = key}
        part   == CHOOSE p \in hit : TRUE
        uid    == part.msg
        res1   == IF hit = {} THEN -1 ELSE 0
        parts1 == IF res1 >= 0
                  THEN {IF p.rowid = part.rowid THEN [p EXCEPT !.status = st] ELSE p : p \in parts}
                  ELSE parts
        found  == {m \in msgs : m.uid = uid}
        res2   == IF res1 < 0 THEN res1
                  ELSE IF found = {} THEN -1
                  ELSE IF (CHOOSE m \in found : TRUE).cnt #
                          Cardinality({p \in parts1 : p.msg = uid /\ status_is_final(p.status)})
                       THEN -2 ELSE 0
        c      == smsdb_outgoing_clear_nolock(msgs, parts1, uid)
    IN  [msgs       |-> IF res2 >= 0 THEN c.msgs ELSE msgs,
         parts      |-> IF res2 >= 0 THEN c.parts ELSE parts1,
         written    |-> parts1,
         res        |-> IF res2 >= 0 /\ c.res < 0 THEN -1 ELSE res2,
         status_all |-> IF res2 >= 0 THEN get_all_status({p \in parts1 : p.msg = uid})
                        ELSE NoStatus]

\* SELECT uid, dst FROM outgoing_msg WHERE expiration < CURRENT_TIMESTAMP
get_expired(msgs) == {m \in msgs : m.expiration < now}

\* smsdb_outgoing_purge_one, row being what get_expired LIMIT 1 returned (no
\* row, or one expired row): res starts at -1 and no branch sets it, so the
\* guarded smsdb_outgoing_clear_nolock call is never made
smsdb_outgoing_purge_one(msgs, parts, row) ==
    LET e    == CHOOSE m \in row : TRUE
        res0 == -1
        res1 == IF row = {} THEN -1 ELSE res0
        c    == smsdb_outgoing_clear_nolock(msgs, parts, e.uid)
    IN  [msgs  |-> IF res1 >= 0 THEN c.msgs ELSE msgs,
         parts |-> IF res1 >= 0 THEN c.parts ELSE parts,
         res   |-> IF res1 >= 0 /\ c.res < 0 THEN -1 ELSE res1,
         uid   |-> IF row = {} THEN NoRow ELSE e.uid,
         dst   |-> IF row = {} THEN NoDst ELSE e.dst]

-----------------------------------------------------------------------------
(* The outgoing calls as actions; ret records the call and what it did *)

NoCall ==
    [op |-> "none", uid |-> NoRow, key |-> <<>>, st |-> NoRow, res |-> 0, dst |-> NoDst,
     status_all |-> NoStatus, gone_msg |-> {}, gone_part |-> {}, ins |-> <<>>,
     expired |-> {}, was_settled |-> FALSE, was_free |-> FALSE, changed |-> FALSE]

Without(order, rows) == SelectSeq(order, LAMBDA k : k \notin {p.key : p \in rows})

OutgoingAdd ==
    /\ seq_msg < MaxMsgs
    /\ \E id \in Ids, addr \in OutDests, cnt \in Cnts, ttl \in Ttls, srr \in {0, 1} :
          LET r == smsdb_outgoing_add(outgoing_msg, seq_msg, id, addr, cnt, ttl, srr)
          IN  /\ outgoing_msg' = r.msgs
              /\ seq_msg' = r.seq
              /\ ret' = [NoCall EXCEPT !.op = "add", !.uid = r.res, !.res = r.res]
    /\ UNCHANGED <<outgoing_part, now, insOrder, settled, settledFree, inVars, refVars, monVars, txVars, initVars>>

OutgoingPartPut ==
    /\ \E uid \in 1..MaxMsgs, refid \in Mrs :
          LET r    == smsdb_outgoing_part_put(outgoing_msg, outgoing_part, uid, refid)
              gone == r.written \ r.parts
              ins  == insOrder \o SetToSeq(r.inserted)
          IN  /\ outgoing_msg' = r.msgs
              /\ outgoing_part' = r.parts
              /\ insOrder' = Without(ins, gone)
              /\ settledFree' = settledFree \ r.inserted
              /\ ret' = [NoCall EXCEPT !.op = "part_put", !.uid = uid, !.st = refid,
                                       !.res = r.res, !.dst = r.dst, !.ins = ins,
                                       !.gone_msg = outgoing_msg \ r.msgs,
                                       !.gone_part = gone]
    /\ UNCHANGED <<seq_msg, now, settled, inVars, refVars, monVars, txVars, initVars>>

OutgoingPartStatus ==
    /\ \E id \in Ids, addr \in OutDests, mr \in Mrs, st \in Statuses :
          LET r    == smsdb_outgoing_part_status(outgoing_msg, outgoing_part, id, addr, mr, st)
              gone == r.written \ r.parts
              done == {p.key : p \in {q \in r.written :
                                         \E m \in outgoing_msg \ r.msgs : q.msg = m.uid}}
          IN  /\ outgoing_msg' = r.msgs
              /\ outgoing_part' = r.parts
              /\ insOrder' = Without(insOrder, gone)
              /\ settled' = settled \cup done
              /\ settledFree' = settledFree \cup done
              /\ ret' = [NoCall EXCEPT !.op = "part_status", !.key = OutKey(id, addr, mr),
                                       !.st = st, !.res = r.res, !.ins = insOrder,
                                       !.status_all = r.status_all,
                                       !.gone_msg = outgoing_msg \ r.msgs,
                                       !.gone_part = gone,
                                       !.was_settled = OutKey(id, addr, mr) \in settled,
                                       !.was_free = OutKey(id, addr, mr) \in settledFree,
                                       !.changed = (r.msgs # outgoing_msg
                                                    \/ r.parts # outgoing_part)]
    /\ UNCHANGED <<seq_msg, now, inVars, refVars, monVars, txVars, initVars>>

OutgoingClear ==
    /\ \E uid \in 1..MaxMsgs :
          LET r == smsdb_outgoing_clear(outgoing_msg, outgoing_part, uid)
          IN  /\ outgoing_msg' = r.msgs
              /\ outgoing_part' = r.parts
              /\ insOrder' = Without(insOrder, outgoing_part \ r.parts)
              /\ ret' = [NoCall EXCEPT !.op = "clear", !.uid = uid, !.res = r.res,
                                       !.dst = r.dst,
                                       !.gone_msg = outgoing_msg \ r.msgs,
                                       !.gone_part = outgoing_part \ r.parts]
    /\ UNCHANGED <<seq_msg, now, settled, settledFree, inVars, refVars, monVars, txVars, initVars>>

\* LIMIT 1 without ORDER BY: any one of the expired rows
OutgoingPurgeOne ==
    /\ \E row \in IF get_expired(outgoing_msg) = {} THEN {{}}
                  ELSE {{m} : m \in get_expired(outgoing_msg)} :
          LET r == smsdb_outgoing_purge_one(outgoing_msg, outgoing_part, row)
          IN  /\ outgoing_msg' = r.msgs
              /\ outgoing_part' = r.parts
              /\ insOrder' = Without(insOrder, outgoing_part \ r.parts)
              /\ ret' = [NoCall EXCEPT !.op = "purge_one", !.uid = r.uid, !.res = r.res,
                                       !.dst = r.dst,
                                       !.gone_msg = outgoing_msg \ r.msgs,
                                       !.gone_part = outgoing_part \ r.parts,
                                       !.expired = {m.uid : m \in get_expired(outgoing_msg)}]
    /\ UNCHANGED <<seq_msg, now, settled, settledFree, inVars, refVars, monVars, txVars, initVars>>

\* CURRENT_TIMESTAMP advances
Tick ==
    /\ now < MaxTime
    /\ now' = now + 1
    /\ UNCHANGED <<outgoing_msg, outgoing_part, seq_msg, ret, insOrder, settled, settledFree,
                   inVars, refVars, monVars, txVars, initVars>>

-----------------------------------------------------------------------------
(* Claims about the outgoing calls *)

\* a status report that ends the tracking of a part: bit 0x40 set (permanent
\* error) or bit 0x20 clear (delivered), and reported at all
TerminalStatus(st) == st \in 0..255 /\ ((st \div 64) % 2 = 1 \/ (st \div 32) % 2 = 0)

\* what a caller reads for a status: an unreported one reads as 0
Reported(st) == IF st \in 0..255 THEN st ELSE 0

\* the statuses of the rows whose keys are listed, in the order of the list
RECURSIVE StatusesOf(_, _)
StatusesOf(keys, rows) ==
    IF keys = <<>> THEN <<>>
    ELSE LET here == {p \in rows : p.key = Head(keys)}
         IN  (IF here = {} THEN <<>> ELSE <<Reported((CHOOSE p \in here : TRUE).status)>>)
                 \o StatusesOf(Tail(keys), rows)

\* C6: smsdb_outgoing_purge_one called while some message is past expiration
\* removes exactly one such message with all its parts and returns its uid and
\* destination with a result >= 0; called when none is, it returns a negative
\* result and changes nothing.
C6_PurgeOneDrainsOne ==
    ret.op = "purge_one" =>
        IF ret.expired # {}
        THEN /\ ret.res >= 0
             /\ ret.uid \in ret.expired
             /\ \E m \in ret.gone_msg : ret.gone_msg = {m} /\ m.uid = ret.uid /\ m.dst = ret.dst
             /\ \A p \in ret.gone_part : p.msg = ret.uid
             /\ \A p \in outgoing_part : p.msg # ret.uid
        ELSE ret.res < 0 /\ ret.gone_msg = {} /\ ret.gone_part = {}

\* C7: smsdb_outgoing_part_put and smsdb_outgoing_part_status remove a message
\* only when every part of it has a terminal status, or, the message not asking
\* for status reports, when every declared part row exists.
C7_RemovedOnlyWhenSettled ==
    ret.op \in {"part_put", "part_status"} =>
        \A m \in ret.gone_msg :
            LET ps == {p \in ret.gone_part : p.msg = m.uid}
            IN  \/ \A p \in ps : TerminalStatus(p.status)
                \/ m.srr = 0 /\ Cardinality(ps) >= m.cnt

\* C8: smsdb_outgoing_part_status, the part being found by its key, returns a
\* result >= 0 exactly when after the write the number of parts of the message
\* with a terminal status equals the declared count; then status_all holds the
\* statuses of all parts in insertion order followed by -1 and the message is
\* deleted with all its parts; otherwise it returns -2, the written status is
\* kept and no row is deleted.  The only other result is -1, the key not found.
C8_StatusSettles ==
    ret.op = "part_status" =>
        \/ /\ ret.res >= 0
           /\ \E m \in ret.gone_msg :
                 /\ ret.gone_msg = {m}
                 /\ \A p \in ret.gone_part : p.msg = m.uid
                 /\ \E p \in ret.gone_part : p.key = ret.key /\ p.status = ret.st
                 /\ Cardinality({p \in ret.gone_part : TerminalStatus(p.status)}) = m.cnt
                 /\ \A p \in outgoing_part : p.msg # m.uid
                 /\ \A x \in outgoing_msg : x.uid # m.uid
           /\ ret.status_all = StatusesOf(ret.ins, ret.gone_part) \o <<-1>>
           /\ Len(ret.status_all) = Cardinality(ret.gone_part) + 1
        \/ /\ ret.res = -2
           /\ ret.gone_msg = {} /\ ret.gone_part = {}
           /\ ret.status_all = NoStatus
           /\ \E p \in outgoing_part :
                 /\ p.key = ret.key /\ p.status = ret.st
                 /\ \E m \in outgoing_msg :
                       /\ m.uid = p.msg
                       /\ Cardinality({q \in outgoing_part :
                              q.msg = m.uid /\ TerminalStatus(q.status)}) # m.cnt
        \/ /\ ret.res = -1
           /\ ~ret.changed
           /\ \A p \in outgoing_part : p.key # ret.key

\* a settlement of a message of two parts with different statuses
C8_Witness ==
    /\ ret.op = "part_status"
    /\ ret.res >= 0
    /\ Len(ret.status_all) = 3
    /\ ret.status_all[1] # ret.status_all[2]
    /\ ret.status_all[3] = -1

\* C9 (as claimed): after smsdb_outgoing_part_status settled and purged a
\* message, any later smsdb_outgoing_part_status call for a key of one of its
\* parts returns -1 and changes no row.
C9_SettledKeyNeverFound ==
    (ret.op = "part_status" /\ ret.was_settled) => (ret.res = -1 /\ ~ret.changed)

\* C9 (amended): the same, as long as smsdb_outgoing_part_put has not inserted
\* a part under that key again since the settlement.
C9_SettledKeyNotFoundUntilReused ==
    (ret.op = "part_status" /\ ret.was_free) => (ret.res = -1 /\ ~ret.changed)

\* a status update for the key of a part of a settled message
C9_Witness ==
    /\ ret.op = "part_status"
    /\ ret.was_free
    /\ ret.res = -1

C11_NoReportPurgedAfterExpiry ==
    (ret.op = "purge_one" /\ Cardinality(ret.expired) = 1) =>
        \A m \in outgoing_msg \cup ret.gone_msg :
            (m.uid \in ret.expired /\ m.srr = 0) =>
                /\ m \notin outgoing_msg
                /\ \A p \in outgoing_part : p.msg # m.uid

\* C30: every row of outgoing_part references a row of outgoing_msg:
\* smsdb_outgoing_part_put inserts nothing for a message id it does not
\* find, and whatever deletes a message deletes all its parts with it.
C30_NoOrphanParts ==
    /\ \A p \in outgoing_part : \E m \in outgoing_msg : m.uid = p.msg
    /\ \A m \in ret.gone_msg : \A p \in outgoing_part : p.msg # m.uid

\* a message was deleted with its parts while parts of another one are stored
C30_Witness ==
    /\ ret.gone_msg # {} /\ ret.gone_part # {}
    /\ outgoing_part # {}

-----------------------------------------------------------------------------
(* Concurrent callers of the store: SCOPED_TRANSACTION *)

MaxTx == 2          \* store calls per thread

Threads == {"t1", "t2"}

\* the tables as one value
StoreOf ==
    [incoming |-> incoming, outgoing_ref |-> outgoing_ref, outgoing_msg |-> outgoing_msg,
     outgoing_part |-> outgoing_part, seq_msg |-> seq_msg]

EmptyStore ==
    [incoming |-> {}, outgoing_ref |-> [p \in Pairs |-> NoRow], outgoing_msg |-> {},
     outgoing_part |-> {}, seq_msg |-> 0]

\* a thread outside every store call
NoTx == [pc |-> "idle", n |-> 0, call |-> [op |-> "none", a |-> 0, b |-> 0],
         snap |-> EmptyStore, res |-> NoRow, uid |-> NoRow]

\* the device, the peer address and the incoming reference of the calls
TxId   == CHOOSE i \in Ids : TRUE
TxAddr == CHOOSE d \in OutDests : TRUE
TxRef  == CHOOSE r \in InRefs : TRUE

\* the calls the threads make: smsdb_put of part a of 2, smsdb_get_refid,
\* smsdb_outgoing_add of a parts with a report requested, smsdb_outgoing_part_put
\* of message 1 with reference b, smsdb_outgoing_part_status of reference 1 with
\* status b, smsdb_outgoing_clear of message 1, smsdb_outgoing_purge_one
TxCalls ==
    {[op |-> "put", a |-> order, b |-> 0] : order \in 1..2}
    \cup {[op |-> "get_refid", a |-> 0, b |-> 0]}
    \cup {[op |-> "add", a |-> cnt, b |-> 1] : cnt \in Cnts}
    \cup {[op |-> "part_put", a |-> 1, b |-> mr] : mr \in Mrs}
    \cup {[op |-> "part_status", a |-> 1, b |-> st] : st \in {0, 32}}
    \cup {[op |-> "clear", a |-> 1, b |-> 0]}
    \cup {[op |-> "purge_one", a |-> 0, b |-> 0]}

\* what get_expired LIMIT 1 can return on the tables S
ExpiredRows(S) ==
    IF get_expired(S.outgoing_msg) = {} THEN {{}}
    ELSE {{m} : m \in get_expired(S.outgoing_msg)}

\* the statements of call c run on the tables S: the tables after them, the
\* value returned and the message id written to *uid
Executed(c, S, row) ==
    IF c.op = "put"
    THEN LET r == smsdb_put(S.incoming, TxId, TxAddr, TxRef, 2, c.a, "Hel", TRUE)
         IN  [store |-> [S EXCEPT !.incoming = r.db], res |-> r.res, uid |-> NoRow]
    ELSE IF c.op = "get_refid"
    THEN LET r == smsdb_get_refid(S.outgoing_ref, TxId, TxAddr)
         IN  [store |-> [S EXCEPT !.outgoing_ref = r.db], res |-> r.res, uid |-> NoRow]
    ELSE IF c.op = "add"
    THEN LET r == smsdb_outgoing_add(S.outgoing_msg, S.seq_msg, TxId, TxAddr, c.a, 0, c.b)
         IN  [store |-> [S EXCEPT !.outgoing_msg = r.msgs, !.seq_msg = r.seq],
              res |-> r.res, uid |-> NoRow]
    ELSE IF c.op = "part_put"
    THEN LET r == smsdb_outgoing_part_put(S.outgoing_msg, S.outgoing_part, c.a, c.b)
         IN  [store |-> [S EXCEPT !.outgoing_msg = r.msgs, !.outgoing_part = r.parts],
              res |-> r.res, uid |-> NoRow]
    ELSE IF c.op = "part_status"
    THEN LET r == smsdb_outgoing_part_status(S.outgoing_msg, S.outgoing_part,
                                             TxId, TxAddr, c.a, c.b)
         IN  [store |-> [S EXCEPT !.outgoing_msg = r.msgs, !.outgoing_part = r.parts],
              res |-> r.res, uid |-> NoRow]
    ELSE IF c.op = "clear"
    THEN LET r == smsdb_outgoing_clear(S.outgoing_msg, S.outgoing_part, c.a)
         IN  [store |-> [S EXCEPT !.outgoing_msg = r.msgs, !.outgoing_part = r.parts],
              res |-> r.res, uid |-> NoRow]
    ELSE LET r == smsdb_outgoing_purge_one(S.outgoing_msg, S.outgoing_part, row)
         IN  [store |-> [S EXCEPT !.outgoing_msg = r.msgs, !.outgoing_part = r.parts],
              res |-> r.res, uid |-> r.uid]

\* faulty variant: the transaction begins without the lock
dblock_ignored(l) == TRUE

\* smsdb_begin_transaction, line 356: ast_mutex_lock(dblock) returns when the
\* lock is free
dblock_free(l) == l = "none"

\* smsdb_begin_transaction: the lock is taken, then BEGIN TRANSACTION; the
\* statements of the call read the tables from here on
TxBegin(t) ==
    /\ tx[t].pc # "open"
    /\ tx[t].n < MaxTx
    /\ dblock_free(dblock)
    /\ dblock' = t
    /\ \E c \in TxCalls :
          /\ c.op = "add" => seq_msg < MaxMsgs
          /\ tx' = [tx EXCEPT ![t] = [pc |-> "open", n |-> tx[t].n + 1, call |-> c,
                                      snap |-> StoreOf, res |-> NoRow, uid |-> NoRow]]
    /\ UNCHANGED <<storeVars, monVars, initVars>>

\* smsdb_commit_transaction: what the statements of the call have written is
\* committed, then the lock is released and the call returns
TxCommit(t) ==
    /\ tx[t].pc = "open"
    /\ \E row \in ExpiredRows(tx[t].snap) :
          LET r == Executed(tx[t].call, tx[t].snap, row)
          IN  /\ incoming' = r.store.incoming
              /\ outgoing_ref' = r.store.outgoing_ref
              /\ outgoing_msg' = r.store.outgoing_msg
              /\ outgoing_part' = r.store.outgoing_part
              /\ seq_msg' = r.store.seq_msg
              /\ tx' = [tx EXCEPT ![t] = [@ EXCEPT !.pc = "done", !.snap = EmptyStore,
                                                   !.res = r.res, !.uid = r.uid]]
    /\ dblock' = IF dblock = t THEN "none" ELSE dblock
    /\ UNCHANGED <<inHist, refLast, refPrev, now, ret, insOrder, settled, settledFree,
                   monVars, initVars>>

\* at most one transaction is open, and the thread it belongs to holds dblock
OneTransaction ==
    /\ Cardinality({t \in Threads : tx[t].pc = "open"}) <= 1
    /\ \A t \in Threads : tx[t].pc = "open" <=> dblock = t

\* a call that commits leaves the tables and returns the values that its
\* statements give when run, then and there, on the tables as they are
CommitIsAtomic ==
    \A t \in Threads :
        (tx[t].pc = "open" /\ tx'[t].pc = "done") =>
            \E row \in ExpiredRows(StoreOf) :
                LET r == Executed(tx[t].call, StoreOf, row)
                IN  /\ StoreOf' = r.store
                    /\ tx'[t].res = r.res
                    /\ tx'[t].uid = r.uid

\* C24: at most one store transaction is in progress at any time: each store
\* call holds dblock from its BEGIN to its COMMIT, so that the calls of
\* concurrent threads take effect one after the other, in the order of their
\* commits.
C24_TransactionsSerialized == [](OneTransaction) /\ [][CommitIsAtomic]_vars

\* two threads have taken the references 0 and 1 for the same destination
C24_Witness ==
    /\ tx["t1"].pc = "done" /\ tx["t1"].call.op = "get_refid" /\ tx["t1"].res = 1
    /\ tx["t2"].pc = "done" /\ tx["t2"].call.op = "get_refid" /\ tx["t2"].res = 0

-----------------------------------------------------------------------------
(* Opening and closing the store: smsdb_init, smsdb_atexit *)

MaxInits == 3       \* smsdb_init and smsdb_atexit calls per behaviour

\* what db_create_smsdb creates, one statement each
Creates ==
    {"incoming", "incoming_key", "outgoing_ref", "outgoing_msg", "outgoing_part",
     "outgoing_msg_index"}

\* the create statements that fail in one db_create_smsdb: none, or one of them
BadCreates == {{}} \cup {{c} : c \in Creates}

\* where init_statements stops: at no statement, at its first or at a later one
StmtFailures == {"no", "first", "later"}

\* db_open: sqlite3_open; on failure the handle is closed and the pointer is
\* left as sqlite3_open set it, a closed handle, or NULL when out of memory
db_open(ok, oom) ==
    IF ok THEN [smsdb |-> "open", res |-> 0]
    ELSE [smsdb |-> IF oom THEN "null" ELSE "closed", res |-> -1]

\* db_create_smsdb: every statement is run, res is -1 when one has failed
db_create_smsdb(sch, bad) ==
    [schema |-> sch \cup (Creates \ bad), res |-> IF bad = {} THEN 0 ELSE -1]

\* init_statements: the INIT_STMT calls joined by ||, the first failure ends them
init_statements(f) ==
    [stmts |-> IF f = "no" THEN "all" ELSE IF f = "first" THEN "none" ELSE "some",
     res   |-> IF f = "no" THEN 0 ELSE -1]

\* line 326: if (smsdb) return 0;
already_open(h) == h # "null"

\* db_init
db_init(h, sch, st, ok, oom, bad, f) ==
    LET o == db_open(ok, oom)
        c == db_create_smsdb(sch, bad)
        i == init_statements(f)
    IN  IF already_open(h) THEN [smsdb |-> h, schema |-> sch, stmts |-> st, res |-> 0]
        ELSE IF o.res # 0 THEN [smsdb |-> o.smsdb, schema |-> sch, stmts |-> st, res |-> -1]
        ELSE IF c.res # 0
             THEN [smsdb |-> o.smsdb, schema |-> c.schema, stmts |-> st, res |-> -1]
        ELSE [smsdb |-> o.smsdb, schema |-> c.schema, stmts |-> i.stmts,
              res |-> IF i.res # 0 THEN -1 ELSE 0]

\* smsdb_init: -1 when db_init fails, else 0
smsdb_init(h, sch, st, ok, oom, bad, f) == db_init(h, sch, st, ok, oom, bad, f)

SmsdbInit ==
    /\ Len(initHist) < MaxInits
    /\ \E ok \in BOOLEAN, oom \in BOOLEAN, bad \in BadCreates, f \in StmtFailures :
          LET r == smsdb_init(smsdb, schema, stmts, ok, oom, bad, f)
          IN  /\ smsdb' = r.smsdb
              /\ schema' = r.schema
              /\ stmts' = r.stmts
              /\ initHist' = Append(initHist,
                                    [op |-> "init", res |-> r.res, before |-> smsdb,
                                     smsdb |-> r.smsdb, schema |-> r.schema,
                                     stmts |-> r.stmts])
    /\ UNCHANGED <<storeVars, monVars, txVars>>

\* smsdb_atexit: the statements are finalized; the pointer is reset when
\* sqlite3_close succeeds (closing a handle closed before has no defined
\* result).  The tables of an in-memory store are lost with the handle
SmsdbAtexit ==
    /\ Len(initHist) < MaxInits
    /\ \E closed \in BOOLEAN, in_memory \in BOOLEAN :
          LET h == IF smsdb = "null" \/ closed THEN "null" ELSE smsdb
              t == IF smsdb = "open" /\ h = "null" /\ in_memory THEN {} ELSE schema
          IN  /\ smsdb' = h
              /\ schema' = t
              /\ stmts' = "none"
              /\ initHist' = Append(initHist,
                                    [op |-> "atexit", res |-> 0, before |-> smsdb,
                                     smsdb |-> h, schema |-> t, stmts |-> "none"])
    /\ UNCHANGED <<storeVars, monVars, txVars>>

\* the store is usable: open, with its tables and its statements
StoreReady(h) == h.smsdb = "open" /\ h.schema = Creates /\ h.stmts = "all"

\* C29: smsdb_init returns success only with the store open, the tables
\* created and the statements prepared; in particular a call made after a
\* failed one does not return success through the already-open shortcut.
C29_InitSuccessMeansReady ==
    \A i \in 1..Len(initHist) :
        (initHist[i].op = "init" /\ initHist[i].res = 0) => StoreReady(initHist[i])

-----------------------------------------------------------------------------
(* The monitor thread: src/src/monitor_thread.c *)

MaxQueue  == 2      \* tasks the serializer holds before it rejects every push
MaxFrames == 1      \* complete frames found in the ring buffer after one at_read
FrameNos  == {1, 2}             \* numbers of the frames waiting to be handled

TASKPROCESSOR_HIGH_WATER  == 400
RESPONSE_READ_TIMEOUT     == 10000
UNHANDLED_COMMAND_TIMEOUT == 500

Depths    == {399, 400, 401}    \* what ast_taskprocessor_size reports
Deadlines == {-1, 0, 250}       \* ms left for the command at the head of the queue

Tasks == {"expired_reports", "ping", "cmd_timeout", "restart_monitor", "response"}

\* the four maintenance tasks, pushed with the device as payload
Maintenance == Tasks \ {"response"}

\* the command at the head of the at-queue as cmd_timeout reads it: ecmd is
\* NULL or has a length (bytes not written yet) and the flag ATQ_CMD_FLAG_IGNORE
NoCmd == [present |-> FALSE, length |-> 0, ignore |-> FALSE]
HeadCmds ==
    {NoCmd} \cup {[present |-> TRUE, length |-> l, ignore |-> g] : l \in {0, 5}, g \in BOOLEAN}

\* the number of the last frame received, the frame of the last response task
\* run and of the one before, and what the running task finds: the head
\* command and whether at_response fails
NoSer == [rx |-> 0, ran |-> 0, prev |-> 0, ecmd |-> NoCmd, fails |-> FALSE]

\* the frames are numbered from 1 again whenever no response task is queued
\* or running
renumber(q, w, sr) ==
    IF w # "response" /\ \A i \in 1..Len(q) : q[i] # "response"
    THEN [sr EXCEPT !.rx = 0, !.ran = 0, !.prev = 0]
    ELSE sr

\* what one loop iteration has seen and pushed so far
NoIter ==
    [pushes |-> <<>>, locked |-> FALSE, cmd |-> "unknown", t |-> 0, size |-> NoRow,
     suspended |-> FALSE, wait |-> 0, data |-> "unknown", frames |-> 0]

\* how the thread left the loop
NoFin ==
    [cause |-> "none", cleared |-> FALSE, before |-> NoRow, disc |-> "none", unl |-> "none",
     term |-> NoRow]

\* ast_mutex_unlock by thread me: pvt->lock is an Asterisk mutex (recursive,
\* owner-checked), so an unlock by a thread that does not hold it fails with
\* EPERM and leaves the lock as it is
ast_mutex_unlock(l, me) == IF l = me THEN "none" ELSE l

\* check_taskprocessor: size and suspended are logged, the result is
\* size >= TASKPROCESSOR_HIGH_WATER
check_taskprocessor(size, suspended) == size >= TASKPROCESSOR_HIGH_WATER

\* faulty variant: the newest task is served first
ast_taskprocessor_push_front(q, task, ok) == IF ok THEN <<task>> \o q ELSE q

\* ast_taskprocessor_push: the task is appended when the serializer accepts it
ast_taskprocessor_push(q, task, ok) == IF ok THEN Append(q, task) ELSE q

RECURSIVE push_all(_, _, _)
push_all(q, tasks, oks) ==
    IF tasks = <<>> THEN q
    ELSE push_all(ast_taskprocessor_push(q, Head(tasks), Head(oks)), Tail(tasks), Tail(oks))

\* the pushes of tasks with their results, as the iteration records them
Logged(tasks, oks) == [i \in 1..Len(tasks) |-> [task |-> tasks[i], ok |-> oks[i]]]

\* the possible results of n pushes in a row
Results(n) ==
    IF n = 0 THEN {<<>>}
    ELSE IF n = 1 THEN {<<a>> : a \in BOOLEAN}
    ELSE {<<a, b>> : a \in BOOLEAN, b \in BOOLEAN}

\* faulty variant: every rejected push ends the loop
after_push_fatal(task, ok, cont) == IF ~ok THEN "e_restart" ELSE cont

\* where the thread goes after a push: a rejected push of a maintenance task is
\* logged by ast_debug and the loop goes on; a rejected response task is
\* freed and the thread jumps to e_restart (lines 281-285)
after_push(task, ok, cont) == IF ~ok /\ task = "response" THEN "e_restart" ELSE cont

\* the position after the pushes of tasks
after_all(tasks, oks, cont) ==
    IF \E i \in 1..Len(tasks) : after_push(tasks[i], oks[i], cont) # cont
    THEN "e_restart" ELSE cont

\* faulty variant: command-timeout first
elapsed_tasks_swapped(high) ==
    <<"cmd_timeout">> \o (IF high THEN <<"restart_monitor">> ELSE <<>>)

\* lines 220-228: the pushes made when the deadline of the command has elapsed
elapsed_tasks(high) ==
    (IF high THEN <<"restart_monitor">> ELSE <<>>) \o <<"cmd_timeout">>

\* faulty variant: the ping is pushed only when the restart is
idle_tasks_noping(high) ==
    IF high THEN <<"restart_monitor", "ping">> ELSE <<>>

\* lines 243-251: the pushes made when the long wait without a command timed out
idle_tasks(high) ==
    (IF high THEN <<"restart_monitor">> ELSE <<>>) \o <<"ping">>

\* line 205: if (pvt->terminate_monitor)
terminate_requested(flag) == flag # 0

\* the log of the iteration and the serializer after pushing tasks with results oks
PushedWith(tasks, datas, oks) ==
    /\ Len(push_all(tps, tasks, oks)) <= MaxQueue
    /\ tps' = push_all(tps, tasks, oks)
    /\ tpdata' = push_all(tpdata, datas, oks)

\* the maintenance tasks are pushed with the device as payload
Pushed(tasks, oks) == PushedWith(tasks, [i \in 1..Len(tasks) |-> 0], oks)

\* an exit through e_restart caused by a push is recorded as such
Leave(next, cause) == IF next = "e_restart" THEN [fin EXCEPT !.cause = cause] ELSE fin

(* monitor_threadproc_pvt, one action per step between two lock operations or waits *)

\* line 165: ast_mutex_lock(&pvt->lock), blocking
Mon_Lock ==
    /\ mon = "start"
    /\ lock = "none"
    /\ lock' = "monitor"
    /\ mon' = "init"
    /\ UNCHANGED <<terminate_monitor, monitor_thread, tps, tpdata, it, fin, owner, worker, storeVars, ser, txVars, initVars>>

\* faulty variant: the lock is released before the jump
init_failed_unlocks(l) == ast_mutex_unlock(l, "monitor")

\* lines 169-172 and 179-182: goto e_cleanup, the lock taken at line 165 is kept
init_failed_lock(l) == l

\* lines 166-184: the serializer is built and the initialization enqueued, then
\* the lock is released; either failing, goto e_cleanup with the lock held
Mon_Init ==
    /\ mon = "init"
    /\ \E ok \in BOOLEAN :
          IF ok
          THEN /\ lock' = ast_mutex_unlock(lock, "monitor")
               /\ mon' = "loop"
               /\ fin' = fin
          ELSE /\ lock' = init_failed_lock(lock)
               /\ mon' = "e_cleanup"
               /\ fin' = [fin EXCEPT !.cause = "init"]
    /\ UNCHANGED <<terminate_monitor, monitor_thread, tps, tpdata, it, owner, worker, storeVars, ser, txVars, initVars>>

\* lines 188-190: top of the loop, the expired-reports task is pushed
Mon_Loop ==
    /\ mon = "loop"
    /\ \E oks \in Results(1) :
          LET next == after_all(<<"expired_reports">>, oks, "trylock")
          IN  /\ Pushed(<<"expired_reports">>, oks)
              /\ it' = [NoIter EXCEPT !.pushes = Logged(<<"expired_reports">>, oks)]
              /\ mon' = next
              /\ fin' = Leave(next, "push")
    /\ UNCHANGED <<lock, terminate_monitor, monitor_thread, owner, worker, storeVars, ser, txVars, initVars>>

\* faulty variant: the thread waits for the lock, as ast_mutex_lock does
trylock_blocks(l) == l = "none"

\* lines 192 and 263: ast_mutex_trylock returns at once whoever holds the lock
trylock_returns(l) == TRUE

\* line 192: ast_mutex_trylock succeeds
Mon_TryLockOk ==
    /\ mon = "trylock"
    /\ lock = "none"
    /\ lock' = "monitor"
    /\ it' = [it EXCEPT !.locked = TRUE]
    /\ mon' = "locked"
    /\ UNCHANGED <<terminate_monitor, monitor_thread, tps, tpdata, fin, owner, worker, storeVars, ser, txVars, initVars>>

\* line 192: ast_mutex_trylock fails, the lock being held by another thread
Mon_TryLockBusy ==
    /\ mon = "trylock"
    /\ trylock_returns(lock)
    /\ lock # "none"
    /\ mon' = "wait_busy"
    /\ UNCHANGED <<lock, terminate_monitor, monitor_thread, tps, tpdata, it, fin, owner, worker,
                   storeVars, ser, txVars, initVars>>

\* faulty variant: the command-timeout task is pushed as well
busy_timeout_tasks_cmd == <<"cmd_timeout", "ping">>

\* lines 195-198: the pushes made when the wait without the lock timed out
busy_timeout_tasks == <<"ping">>

\* lines 193-199: the long wait without the lock; on timeout a ping is pushed
Mon_WaitBusy ==
    /\ mon = "wait_busy"
    /\ \E data \in BOOLEAN :
          IF data
          THEN /\ it' = [it EXCEPT !.wait = RESPONSE_READ_TIMEOUT, !.data = "yes"]
               /\ mon' = "read"
               /\ UNCHANGED <<tps, tpdata, fin>>
          ELSE \E oks \in Results(Len(busy_timeout_tasks)) :
                  LET next == after_all(busy_timeout_tasks, oks, "loop")
                  IN  /\ Pushed(busy_timeout_tasks, oks)
                      /\ it' = [it EXCEPT !.wait = RESPONSE_READ_TIMEOUT, !.data = "no",
                                           !.pushes = @ \o Logged(busy_timeout_tasks, oks)]
                      /\ mon' = next
                      /\ fin' = Leave(next, "push")
    /\ UNCHANGED <<lock, terminate_monitor, monitor_thread, owner, worker, storeVars, ser, txVars, initVars>>

\* lines 201-216: under the lock, the health check, the terminate flag and the
\* deadline of the command at the head of the queue (at_queue_timeout returns
\* non-zero when there is none), then the lock is released
Mon_Locked ==
    /\ mon = "locked"
    /\ \E healthy \in BOOLEAN, rc \in {0, 1}, t \in Deadlines :
          IF ~healthy
          THEN /\ mon' = "e_cleanup"
               /\ fin' = [fin EXCEPT !.cause = "health"]
               /\ UNCHANGED <<lock, it>>
          ELSE IF terminate_requested(terminate_monitor)
          THEN /\ mon' = "e_restart"
               /\ fin' = [fin EXCEPT !.cause = "terminate"]
               /\ UNCHANGED <<lock, it>>
          ELSE /\ lock' = ast_mutex_unlock(lock, "monitor")
               /\ fin' = fin
               /\ IF rc # 0
                  THEN /\ it' = [it EXCEPT !.cmd = "none"]
                       /\ mon' = "idle_wait"
                  ELSE /\ it' = [it EXCEPT !.cmd = "deadline", !.t = t]
                       /\ mon' = IF t <= 0 THEN "cmd_elapsed" ELSE "cmd_wait"
    /\ UNCHANGED <<terminate_monitor, monitor_thread, tps, tpdata, owner, worker, storeVars, ser, txVars, initVars>>

\* lines 219-230: the deadline has elapsed
Mon_CmdElapsed ==
    /\ mon = "cmd_elapsed"
    /\ \E size \in Depths, suspended \in BOOLEAN :
          LET tasks == elapsed_tasks(check_taskprocessor(size, suspended))
          IN  \E oks \in Results(Len(tasks)) :
                 LET next == after_all(tasks, oks, "wait_short")
                 IN  /\ Pushed(tasks, oks)
                     /\ it' = [it EXCEPT !.size = size, !.suspended = suspended,
                                          !.pushes = @ \o Logged(tasks, oks)]
                     /\ mon' = next
                     /\ fin' = Leave(next, "push")
    /\ UNCHANGED <<lock, terminate_monitor, monitor_thread, owner, worker, storeVars, ser, txVars, initVars>>

\* lines 230-233: t = UNHANDLED_COMMAND_TIMEOUT; at_wait
Mon_WaitShort ==
    /\ mon = "wait_short"
    /\ \E data \in BOOLEAN :
          /\ it' = [it EXCEPT !.wait = UNHANDLED_COMMAND_TIMEOUT,
                               !.data = IF data THEN "yes" ELSE "no"]
          /\ mon' = IF data THEN "read" ELSE "loop"
    /\ UNCHANGED <<lock, terminate_monitor, monitor_thread, tps, tpdata, fin, owner, worker,
                   storeVars, ser, txVars, initVars>>

\* lines 234-239: the wait until the deadline; on timeout the command-timeout
\* task is pushed
Mon_CmdWait ==
    /\ mon = "cmd_wait"
    /\ \E data \in BOOLEAN :
          IF data
          THEN /\ it' = [it EXCEPT !.wait = it.t, !.data = "yes"]
               /\ mon' = "read"
               /\ UNCHANGED <<tps, tpdata, fin>>
          ELSE \E oks \in Results(1) :
                  LET next == after_all(<<"cmd_timeout">>, oks, "loop")
                  IN  /\ Pushed(<<"cmd_timeout">>, oks)
                      /\ it' = [it EXCEPT !.wait = it.t, !.data = "no",
                                           !.pushes = @ \o Logged(<<"cmd_timeout">>, oks)]
                      /\ mon' = next
                      /\ fin' = Leave(next, "push")
    /\ UNCHANGED <<lock, terminate_monitor, monitor_thread, owner, worker, storeVars, ser, txVars, initVars>>

\* lines 241-253: no command pending, the long wait; on timeout the high-water
\* check and the ping
Mon_IdleWait ==
    /\ mon = "idle_wait"
    /\ \E data \in BOOLEAN :
          IF data
          THEN /\ it' = [it EXCEPT !.wait = RESPONSE_READ_TIMEOUT, !.data = "yes"]
               /\ mon' = "read"
               /\ UNCHANGED <<tps, tpdata, fin>>
          ELSE \E size \in Depths, suspended \in BOOLEAN :
                  LET tasks == idle_tasks(check_taskprocessor(size, suspended))
                  IN  \E oks \in Results(Len(tasks)) :
                         LET next == after_all(tasks, oks, "loop")
                         IN  /\ Pushed(tasks, oks)
                             /\ it' = [it EXCEPT !.wait = RESPONSE_READ_TIMEOUT,
                                                  !.data = "no", !.size = size,
                                                  !.suspended = suspended,
                                                  !.pushes = @ \o Logged(tasks, oks)]
                             /\ mon' = next
                             /\ fin' = Leave(next, "push")
    /\ UNCHANGED <<lock, terminate_monitor, monitor_thread, owner, worker, storeVars, ser, txVars, initVars>>

\* lines 258-261: at_read; a negative result breaks out of the loop
Mon_Read ==
    /\ mon = "read"
    /\ \E iovcnt \in {-1, 1} :
          IF iovcnt < 0
          THEN mon' = "relock" /\ fin' = [fin EXCEPT !.cause = "read"]
          ELSE mon' = "stat" /\ fin' = fin
    /\ UNCHANGED <<lock, terminate_monitor, monitor_thread, tps, tpdata, it, owner, worker, storeVars, ser, txVars, initVars>>

\* line 263: the try-lock for the read-byte counter; skipped when contended
Mon_Stat ==
    /\ mon = "stat"
    /\ trylock_returns(lock)
    /\ IF lock = "none"
       THEN lock' = "monitor" /\ mon' = "stat_unlock"
       ELSE lock' = lock /\ mon' = "drain"
    /\ UNCHANGED <<terminate_monitor, monitor_thread, tps, tpdata, it, fin, owner, worker, storeVars, ser, txVars, initVars>>

\* lines 264-265: the counter is updated and the lock released
Mon_StatUnlock ==
    /\ mon = "stat_unlock"
    /\ lock' = ast_mutex_unlock(lock, "monitor")
    /\ mon' = "drain"
    /\ UNCHANGED <<terminate_monitor, monitor_thread, tps, tpdata, it, fin, owner, worker, storeVars, ser, txVars, initVars>>

\* lines 271-287: one more complete frame is taken from the ring buffer and
\* pushed as a response task with the frame as payload; an empty frame, or one
\* whose payload cannot be allocated, is dropped; or no frame is left and the
\* loop starts over
Mon_Drain ==
    /\ mon = "drain"
    /\ \/ /\ it.frames < MaxFrames
          /\ ser.rx + 1 \in FrameNos
          /\ \/ \E oks \in Results(1) :
                   LET next == after_all(<<"response">>, oks, "drain")
                   IN  /\ PushedWith(<<"response">>, <<ser.rx + 1>>, oks)
                       /\ it' = [it EXCEPT !.frames = @ + 1,
                                            !.pushes = @ \o Logged(<<"response">>, oks)]
                       /\ mon' = next
                       /\ fin' = Leave(next, "push")
             \/ /\ it' = [it EXCEPT !.frames = @ + 1]
                /\ mon' = "drain"
                /\ UNCHANGED <<tps, tpdata, fin>>
          /\ ser' = renumber(tps', worker, [ser EXCEPT !.rx = @ + 1])
       \/ /\ mon' = "loop"
          /\ UNCHANGED <<tps, tpdata, it, fin, ser>>
    /\ UNCHANGED <<lock, terminate_monitor, monitor_thread, owner, worker, storeVars, txVars,
                   initVars>>

\* line 290: ast_mutex_lock after the loop was broken, blocking
Mon_Relock ==
    /\ mon = "relock"
    /\ lock = "none"
    /\ lock' = "monitor"
    /\ mon' = "e_cleanup"
    /\ UNCHANGED <<terminate_monitor, monitor_thread, tps, tpdata, it, fin, owner, worker, storeVars, ser, txVars, initVars>>

\* faulty variant: the flag is left as it is
cleanup_flag_kept(flag) == flag

\* line 298: pvt->terminate_monitor = 0
cleanup_flag(flag) == 0

\* lines 292-298, e_cleanup
Mon_Cleanup ==
    /\ mon = "e_cleanup"
    /\ terminate_monitor' = cleanup_flag(terminate_monitor)
    /\ fin' = [fin EXCEPT !.cleared = TRUE, !.before = terminate_monitor]
    /\ mon' = "e_restart"
    /\ UNCHANGED <<lock, monitor_thread, tps, tpdata, it, owner, worker, storeVars, ser, txVars, initVars>>

\* lines 300-301, e_restart: pvt_disconnect(pvt)
Mon_Disconnect ==
    /\ mon = "e_restart"
    /\ fin' = [fin EXCEPT !.disc = IF lock = "monitor" THEN "held" ELSE "not_held"]
    /\ mon' = "unlock"
    /\ UNCHANGED <<lock, terminate_monitor, monitor_thread, tps, tpdata, it, owner, worker, storeVars, ser, txVars, initVars>>

\* line 303: ast_mutex_unlock(&pvt->lock), then the function returns
Mon_Unlock ==
    /\ mon = "unlock"
    /\ lock' = ast_mutex_unlock(lock, "monitor")
    /\ fin' = [fin EXCEPT !.unl = IF lock = "monitor" THEN "held" ELSE "not_held",
                          !.term = terminate_monitor]
    /\ mon' = "done"
    /\ UNCHANGED <<terminate_monitor, monitor_thread, tps, tpdata, it, owner, worker, storeVars, ser, txVars, initVars>>

-----------------------------------------------------------------------------
(* The serializer's worker: one task at a time, each under a try-lock *)

\* faulty variant: an ignorable command is never a reason to restart
cmd_timeout_ignore_first(flag, ecmd, fails) ==
    IF ~ecmd.present \/ ecmd.length # 0 THEN flag
    ELSE IF ecmd.ignore THEN flag
    ELSE IF fails THEN flag
    ELSE 1

\* lines 78-96, cmd_timeout: nothing is done when there is no head command or
\* its bytes are not written yet; the flag is set when at_response fails, and
\* when it succeeds unless the command has ATQ_CMD_FLAG_IGNORE
cmd_timeout(flag, ecmd, fails) ==
    IF ~ecmd.present \/ ecmd.length # 0 THEN flag
    ELSE IF fails THEN 1
    ELSE IF ecmd.ignore THEN flag
    ELSE 1

\* what a task leaves in pvt->terminate_monitor: restart_monitor (line 74)
\* sets it, cmd_timeout as above, the other tasks do not write it
task_effect(task, flag, ecmd, fails) ==
    IF task = "restart_monitor" THEN 1
    ELSE IF task = "cmd_timeout" THEN cmd_timeout(flag, ecmd, fails)
    ELSE flag

\* PVT_TASKPROC_TRYLOCK_AND_EXECUTE: the oldest task is taken; it runs when the
\* try-lock of the device succeeds and is skipped otherwise.  What
\* cmd_timeout will find is fixed from here on, the at-queue being written
\* under the device lock only; at_response is called, and can fail, only for
\* a head command that is written out
Task_Begin ==
    /\ worker = "idle"
    /\ tps # <<>>
    /\ tps' = Tail(tps)
    /\ tpdata' = Tail(tpdata)
    /\ IF lock = "none"
       THEN /\ lock' = "worker"
            /\ worker' = Head(tps)
            /\ \E ecmd \in HeadCmds, fails \in BOOLEAN :
                  /\ Head(tps) # "cmd_timeout" => ecmd = NoCmd
                  /\ fails => (ecmd.present /\ ecmd.length = 0)
                  /\ ser' = [ser EXCEPT
                                !.ran  = IF Head(tps) = "response" THEN Head(tpdata) ELSE @,
                                !.prev = IF Head(tps) = "response" THEN ser.ran ELSE @,
                                !.ecmd = ecmd, !.fails = fails]
       ELSE /\ lock' = lock
            /\ worker' = "idle"
            /\ ser' = renumber(tps', "idle", ser)
    /\ UNCHANGED <<terminate_monitor, monitor_thread, mon, it, fin, owner, storeVars, txVars,
                   initVars>>

\* the task body, then the unlock
Task_End ==
    /\ worker # "idle"
    /\ terminate_monitor' = task_effect(worker, terminate_monitor, ser.ecmd, ser.fails)
    /\ lock' = ast_mutex_unlock(lock, "worker")
    /\ worker' = "idle"
    /\ ser' = renumber(tps, "idle", [ser EXCEPT !.ecmd = NoCmd, !.fails = FALSE])
    /\ UNCHANGED <<monitor_thread, mon, tps, tpdata, it, fin, owner, storeVars, txVars,
                   initVars>>

-----------------------------------------------------------------------------
(* The thread that owns the device: it starts and stops the monitor *)

Owner_Lock ==
    /\ owner = "out"
    /\ lock = "none"
    /\ lock' = "owner"
    /\ owner' = "held"
    /\ UNCHANGED <<terminate_monitor, monitor_thread, mon, tps, tpdata, it, fin, worker, storeVars, ser, txVars, initVars>>

Owner_Unlock ==
    /\ owner = "held"
    /\ lock' = ast_mutex_unlock(lock, "owner")
    /\ owner' = "out"
    /\ UNCHANGED <<terminate_monitor, monitor_thread, mon, tps, tpdata, it, fin, worker, storeVars, ser, txVars, initVars>>

\* pvt_monitor_start: the thread is created, or the handle is reset to
\* AST_PTHREADT_NULL and 0 returned
pvt_monitor_start ==
    /\ owner = "held"
    /\ monitor_thread = "null"
    /\ \E created \in BOOLEAN :
          IF created
          THEN /\ monitor_thread' = "thread"
               /\ mon' = "start"
               /\ it' = NoIter
               /\ fin' = NoFin
          ELSE UNCHANGED <<monitor_thread, mon, it, fin>>
    /\ UNCHANGED <<lock, terminate_monitor, tps, tpdata, owner, worker, storeVars, ser, txVars, initVars>>

\* faulty variant: the lock is kept during the join
join_unlock_kept(l) == l

\* line 335: SCOPED_LOCK with unlock and lock exchanged, the lock is released
\* for the scope of the join
join_unlock(l) == ast_mutex_unlock(l, "owner")

\* pvt_monitor_stop, lines 326-335: nothing without a thread; else the flag is
\* set, the thread signalled and the lock released
Stop_Enter ==
    /\ owner = "held"
    /\ IF monitor_thread = "null"
       THEN /\ owner' = "ret_noop"
            /\ UNCHANGED <<lock, terminate_monitor>>
       ELSE /\ terminate_monitor' = 1
            /\ lock' = join_unlock(lock)
            /\ owner' = "join"
    /\ UNCHANGED <<monitor_thread, mon, tps, tpdata, it, fin, worker, storeVars, ser, txVars, initVars>>

\* line 336: pthread_join returns once the thread function has returned
Stop_Join ==
    /\ owner = "join"
    /\ mon = "done"
    /\ mon' = "idle"
    /\ owner' = "relock"
    /\ UNCHANGED <<lock, terminate_monitor, monitor_thread, tps, tpdata, it, fin, worker, storeVars, ser, txVars, initVars>>

\* line 337: end of the scope, ast_mutex_lock, blocking
Stop_Relock ==
    /\ owner = "relock"
    /\ lock \in {"none", "owner"}
    /\ lock' = "owner"
    /\ owner' = "clear"
    /\ UNCHANGED <<terminate_monitor, monitor_thread, mon, tps, tpdata, it, fin, worker, storeVars, ser, txVars, initVars>>

\* lines 339-340
Stop_Clear ==
    /\ owner = "clear"
    /\ terminate_monitor' = 0
    /\ monitor_thread' = "null"
    /\ owner' = "ret_joined"
    /\ UNCHANGED <<lock, mon, tps, tpdata, it, fin, worker, storeVars, ser, txVars, initVars>>

\* pvt_monitor_stop has returned to its caller, which holds the lock
Owner_Return ==
    /\ owner \in {"ret_noop", "ret_joined"}
    /\ owner' = "held"
    /\ UNCHANGED <<lock, terminate_monitor, monitor_thread, mon, tps, tpdata, it, fin, worker,
                   storeVars, ser, txVars, initVars>>

\* the steps of the monitor thread that take the device lock
MonAcquire ==
    \/ Mon_Lock
    \/ Mon_TryLockOk
    \/ Mon_Relock

\* its other steps
MonStep ==
    \/ Mon_Init
    \/ Mon_Loop
    \/ Mon_TryLockBusy
    \/ Mon_WaitBusy
    \/ Mon_Locked
    \/ Mon_CmdElapsed
    \/ Mon_WaitShort
    \/ Mon_CmdWait
    \/ Mon_IdleWait
    \/ Mon_Read
    \/ Mon_Stat
    \/ Mon_StatUnlock
    \/ Mon_Drain
    \/ Mon_Cleanup
    \/ Mon_Disconnect
    \/ Mon_Unlock

WorkerStep ==
    \/ Task_Begin
    \/ Task_End

\* the steps of pvt_monitor_stop after its first
StopStep ==
    \/ Stop_Join
    \/ Stop_Clear
    \/ Owner_Return

OwnerStep ==
    \/ Owner_Lock
    \/ Owner_Unlock
    \/ pvt_monitor_start
    \/ Stop_Enter
    \/ Stop_Relock
    \/ StopStep

-----------------------------------------------------------------------------
(* Claims about the monitor thread *)

\* the positions of the thread inside the while (1) loop
RunningPcs ==
    {"loop", "trylock", "wait_busy", "locked", "cmd_elapsed", "wait_short", "cmd_wait",
     "idle_wait", "read", "stat", "stat_unlock", "drain"}

\* the pushes a step of the monitor thread makes, with their results
NewPushes ==
    IF mon = "loop" /\ mon' # "loop" THEN it'.pushes
    ELSE IF mon \in RunningPcs /\ mon' # "start" /\ Len(it'.pushes) > Len(it.pushes)
    THEN SubSeq(it'.pushes, Len(it.pushes) + 1, Len(it'.pushes))
    ELSE <<>>

\* the tasks among them that the serializer accepted
RECURSIVE Accepted(_)
Accepted(ps) ==
    IF ps = <<>> THEN <<>>
    ELSE (IF Head(ps).ok THEN <<Head(ps).task>> ELSE <<>>) \o Accepted(Tail(ps))

\* a step in which a push of a task of kind k is rejected keeps the thread in
\* the loop and adds to the serializer only what was accepted
RejectNonFatal(k) ==
    (\E i \in 1..Len(NewPushes) : NewPushes[i].task = k /\ ~NewPushes[i].ok) =>
        /\ mon' \in RunningPcs
        /\ fin' = fin
        /\ tps' = tps \o Accepted(NewPushes)

\* C13 (as claimed): for every task kind, response-handling included, a rejected
\* ast_taskprocessor_push leaves the monitor thread in the loop, which goes on
\* without the task.
C13_RejectedPushNeverFatal == [][\A k \in Tasks : RejectNonFatal(k)]_vars

\* C13 (amended): this holds for the four maintenance tasks (expired-reports,
\* ping, command-timeout, restart-monitor); a rejected push of a
\* response-handling task ends the loop through e_restart.
C13_RejectedMaintenancePushNotFatal ==
    [][/\ \A k \in Maintenance : RejectNonFatal(k)
       /\ (\E i \in 1..Len(NewPushes) : NewPushes[i].task = "response" /\ ~NewPushes[i].ok)
              => (mon' = "e_restart" /\ fin'.cause = "push")]_vars

\* an idle iteration whose three pushes were all rejected, back at the loop top
C13_Witness ==
    /\ mon = "loop"
    /\ Len(it.pushes) = 3
    /\ \A i \in 1..3 : ~it.pushes[i].ok
    /\ {it.pushes[i].task : i \in 1..3} = {"expired_reports", "restart_monitor", "ping"}
    /\ fin.cause = "none"

\* C14: whenever the thread performs pvt_disconnect it holds the device lock,
\* and it holds it when it unlocks afterwards, on every way out of STARTING and
\* RUNNING.
C14_DisconnectUnderLock == fin.disc # "not_held" /\ fin.unl # "not_held"

\* C15 (as claimed): on every way to TERMINATED the terminate flag is cleared
\* before the disconnect, so terminate_monitor is 0 when monitor_threadproc_pvt
\* returns.
C15_TerminateClearedOnExit == fin.term # NoRow => (fin.cleared /\ fin.term = 0)

\* C15 (amended): this holds on the ways through e_cleanup (initialization
\* failure, health failure, read error); on the ways through e_restart (the
\* flag seen set, a response task rejected) the flag is not written, so a
\* thread that leaves because the flag is set returns with the flag still 1.
C15_TerminateClearedOnCleanupOnly ==
    fin.term # NoRow =>
        /\ fin.cause \in {"init", "health", "read"} => (fin.cleared /\ fin.term = 0)
        /\ fin.cause = "terminate" => (~fin.cleared /\ fin.term = 1)
        /\ fin.cause = "push" => (~fin.cleared /\ fin.term \in {0, 1})

\* a read error met while the flag was set: the flag is 0 at the return
C15_Witness ==
    /\ fin.cause = "read"
    /\ fin.before = 1
    /\ fin.term = 0

\* the tasks pushed in the iteration, in order
PushedTasks == [i \in 1..Len(it.pushes) |-> it.pushes[i].task]

\* C18: an iteration in which the lock was acquired, no command was pending and
\* the 10 s wait ended without data has pushed the ping task exactly once and
\* the thread is back at the top of the loop, still running.
C18_IdleTimeoutPingsOnce ==
    (it.locked /\ it.cmd = "none" /\ it.data = "no") =>
        /\ Cardinality({i \in 1..Len(it.pushes) : it.pushes[i].task = "ping"}) = 1
        /\ it.wait = RESPONSE_READ_TIMEOUT
        /\ mon = "loop"
        /\ fin.cause = "none"

\* such an iteration below the high-water mark, the ping accepted
C18_Witness ==
    /\ it.locked /\ it.cmd = "none" /\ it.data = "no"
    /\ it.size = 399
    /\ PushedTasks = <<"expired_reports", "ping">>
    /\ it.pushes[2].ok
    /\ mon = "loop"

\* C19: in an iteration where the deadline of the pending command has elapsed
\* and the serializer depth is 401, the restart-monitor task and then the
\* command-timeout task are pushed, and the wait that follows is 500 ms long.
C19_ElapsedAtDepth401 ==
    (it.cmd = "deadline" /\ it.t <= 0 /\ it.size = 401) =>
        /\ Len(it.pushes) >= 3
        /\ SubSeq(PushedTasks, 1, 3) = <<"expired_reports", "restart_monitor", "cmd_timeout">>
        /\ \/ mon = "wait_short" /\ it.wait = 0
           \/ it.wait = UNHANDLED_COMMAND_TIMEOUT

\* both tasks accepted, the short wait over
C19_Witness ==
    /\ it.cmd = "deadline" /\ it.t <= 0 /\ it.size = 401
    /\ it.pushes[2] = [task |-> "restart_monitor", ok |-> TRUE]
    /\ it.pushes[3] = [task |-> "cmd_timeout", ok |-> TRUE]
    /\ it.wait = UNHANDLED_COMMAND_TIMEOUT
    /\ it.data = "no"
    /\ mon = "loop"

\* C20: at the two checkpoints the restart-monitor task is pushed if and only
\* if the depth of the serializer is above 400 or the serializer is suspended.
C20_RestartIffAboveHighWater ==
    it.size # NoRow =>
        ((\E i \in 1..Len(it.pushes) : it.pushes[i].task = "restart_monitor")
            <=> (it.size > TASKPROCESSOR_HIGH_WATER \/ it.suspended))

\* the state pvt_monitor_stop returns in after a join
StopReturned ==
    owner = "ret_joined" =>
        /\ mon = "idle"
        /\ lock = "owner"
        /\ terminate_monitor = 0
        /\ monitor_thread = "null"

\* during the join the caller does not hold the lock, and the monitor thread
\* has returned, or can take a step, or waits for a lock that the serializer's
\* worker holds and is about to release
JoinNotBlocking ==
    owner = "join" =>
        /\ lock # "owner"
        /\ \/ mon = "done"
           \/ ENABLED (MonAcquire \/ MonStep)
           \/ (lock = "worker" /\ ENABLED Task_End)

\* the first step of a pvt_monitor_stop call made under the lock
StopCalled ==
    (owner = "held" /\ owner' \in {"join", "ret_noop"}) =>
        /\ lock = "owner"
        /\ IF monitor_thread = "null"
           THEN /\ owner' = "ret_noop"
                /\ UNCHANGED <<lock, terminate_monitor, monitor_thread, mon, tps, tpdata, it, fin,
                               worker>>
           ELSE /\ owner' = "join"
                /\ terminate_monitor' = 1
                /\ lock' = "none"

\* C16: pvt_monitor_stop called with the device lock held sets the terminate
\* flag and releases the lock for the join, so that the monitor thread is
\* never blocked by its caller; when it returns after the join the thread has
\* exited, the caller holds the lock, terminate_monitor is 0 and monitor_thread
\* is the null handle; called without a monitor thread it changes nothing.
C16_StopNeverDeadlocks ==
    /\ [](StopReturned /\ JoinNotBlocking)
    /\ [][StopCalled]_vars

\* a stop of a running thread that left the loop on seeing the flag
C16_Witness ==
    /\ owner = "ret_joined"
    /\ fin.cause = "terminate"
    /\ fin.disc = "held"

\* C17: once the terminate flag is set while the thread is in the loop, the
\* thread eventually returns.
C17_TerminateLeadsToExit ==
    (terminate_monitor = 1 /\ mon \in RunningPcs) ~> (mon = "done")

-----------------------------------------------------------------------------
(* The rest of the store starts empty *)

\* the queued response tasks carry the frames in the order of their reception,
\* all of them newer than the last frame whose task has run
QueueInReceiveOrder ==
    /\ Len(tpdata) = Len(tps)
    /\ \A i \in 1..Len(tps) :
          /\ (tps[i] = "response") <=> (tpdata[i] # 0)
          /\ tps[i] = "response" => (ser.ran < tpdata[i] /\ tpdata[i] <= ser.rx)
    /\ \A i, j \in 1..Len(tps) :
          (i < j /\ tps[i] = "response" /\ tps[j] = "response") => tpdata[i] < tpdata[j]

\* a response task that starts handles a frame received after the frame of
\* every response task started before it
RunsInReceiveOrder ==
    ser'.ran \notin {ser.ran, 0} =>
        /\ tps # <<>> /\ Head(tps) = "response"
        /\ ser'.ran = Head(tpdata)
        /\ ser'.ran > ser.ran

C23_InitFailureGoesToCleanup ==
    fin.cause = "init" =>
        /\ it = NoIter
        /\ mon \in {"e_cleanup", "e_restart", "unlock", "done", "idle"}
        /\ mon \in {"e_cleanup", "e_restart", "unlock"} => lock = "monitor"
        /\ mon # "e_cleanup" => fin.cleared
        /\ mon \in {"e_restart", "unlock"} => terminate_monitor = 0
        /\ mon \notin {"e_cleanup", "e_restart"} => fin.disc = "held"
        /\ mon \in {"done", "idle"} => (fin.unl = "held" /\ fin.term = 0)

\* the thread has returned after a failed startup
C23_Witness == fin.cause = "init" /\ mon = "done" /\ fin.unl = "held" /\ fin.before = 1

\* the monitor thread can take a step
MonCanStep == ENABLED (MonAcquire \/ MonStep)

\* a step of the thread that leaves a try-lock while another thread holds the
\* lock: the checks under the lock, or the update of the counter, are skipped
ContendedTryLockSkips ==
    /\ (mon = "trylock" /\ lock # "none" /\ mon' # mon) =>
            (mon' = "wait_busy" /\ lock' = lock /\ it' = it)
    /\ (mon = "stat" /\ lock # "none" /\ mon' # mon) =>
            (mon' = "drain" /\ lock' = lock)
    /\ (mon \in RunningPcs /\ lock # "monitor" /\ lock' = "monitor") =>
            (mon \in {"trylock", "stat"} /\ lock = "none")

\* C26: between the startup and the end of the loop the monitor thread never
\* waits for the device lock: it takes it by try-lock only, for the checks at
\* the top of the loop and for the read-byte counter, and goes on without
\* them when the lock is taken; it can be blocked on the lock only at startup
\* and after the loop was broken by a read error.
C26_RunningNeverBlocksOnLock ==
    /\ [](mon \in RunningPcs => MonCanStep)
    /\ []((mon \notin {"idle", "done"} /\ ~MonCanStep) =>
              (mon \in {"start", "relock"} /\ lock # "none"))
    /\ [][ContendedTryLockSkips]_vars

\* the thread goes on with the drain after a contended try-lock for the counter
C26_Witness == mon = "drain" /\ lock = "worker" /\ ~it.locked /\ it.data = "yes"

\* C27: in an iteration whose try-lock fails the thread checks neither the
\* health of the device nor the terminate flag nor the deadline of the
\* command: it waits up to RESPONSE_READ_TIMEOUT and, when the wait times out,
\* pushes one ping and no other task and starts the next iteration.
C27_ContendedIterationOnlyPings ==
    /\ (fin.cause \in {"health", "terminate"} /\ mon \notin {"start", "init"}) => it.locked
    /\ (it.pushes # <<>> /\ ~it.locked) =>
          /\ it.cmd = "unknown" /\ it.size = NoRow
          /\ it.wait \in {0, RESPONSE_READ_TIMEOUT}
          /\ it.data = "no" =>
                /\ PushedTasks = <<"expired_reports", "ping">>
                /\ mon = "loop"

\* the wait of a contended iteration timed out while the terminate flag was set
C27_Witness ==
    /\ ~it.locked /\ it.data = "no" /\ mon = "loop"
    /\ terminate_monitor = 1 /\ lock # "none"

\* the step in which a running command-timeout task ends
CmdTimeoutRuns == worker = "cmd_timeout" /\ worker' = "idle"

\* what the task leaves in the terminate flag
CmdTimeoutEffect ==
    CmdTimeoutRuns =>
        /\ lock = "worker"
        /\ (ser.ecmd.present /\ ser.ecmd.length = 0 /\ ~ser.ecmd.ignore) =>
              terminate_monitor' = 1
        /\ (\/ ~ser.ecmd.present
            \/ ser.ecmd.length # 0
            \/ (ser.ecmd.ignore /\ ~ser.fails)) =>
              terminate_monitor' = terminate_monitor

\* with the flag set, the checks under the lock at the top of the loop end the
\* loop: through e_restart, unless the health check, which comes first, has
\* failed
LockedCheckRestarts ==
    (mon = "locked" /\ terminate_monitor # 0 /\ mon' # mon) =>
        \/ mon' = "e_restart" /\ fin'.cause = "terminate"
        \/ mon' = "e_cleanup" /\ fin'.cause = "health"

\* C28: a command-timeout task that runs under the device lock and finds the
\* head command written out (length 0) and not ignorable sets the terminate
\* flag, and the monitor leaves the loop for the restart at its next check
\* under the lock; with no head command, with one not yet written, or with an
\* ignorable one whose timeout response was handled, the flag is unchanged.
C28_CmdTimeoutSetsTerminate == [][CmdTimeoutEffect /\ LockedCheckRestarts]_vars

\* a command-timeout task runs under the lock on a written, not ignorable
\* command while the monitor is about to try the lock at the top of its loop
C28_Witness ==
    /\ worker = "cmd_timeout" /\ lock = "worker" /\ terminate_monitor = 0
    /\ ser.ecmd.present /\ ser.ecmd.length = 0 /\ ~ser.ecmd.ignore /\ ~ser.fails
    /\ mon = "trylock"

InitRef ==
    /\ outgoing_ref = [p \in Pairs |-> NoRow]
    /\ refLast = [p \in Pairs |-> NoRow]
    /\ refPrev = [p \in Pairs |-> NoRow]

InitOut ==
    /\ outgoing_msg = {}
    /\ outgoing_part = {}
    /\ seq_msg = 0
    /\ now = 0
    /\ ret = NoCall
    /\ insOrder = <<>>
    /\ settled = {}
    /\ settledFree = {}

InitIn ==
    /\ incoming = {}
    /\ inHist = <<>>

\* no monitor thread yet, the device lock free
InitMon ==
    /\ lock = "none"
    /\ terminate_monitor = 0
    /\ monitor_thread = "null"
    /\ mon = "idle"
    /\ tps = <<>>
    /\ it = NoIter
    /\ fin = NoFin
    /\ owner = "out"
    /\ worker = "idle"
    /\ tpdata = <<>>
    /\ ser = NoSer

InitTx ==
    /\ dblock = "none"
    /\ tx = [t \in Threads |-> NoTx]

InitDb ==
    /\ smsdb = "null"
    /\ schema = {}
    /\ stmts = "none"
    /\ initHist = <<>>

Init == InitIn /\ InitRef /\ InitOut /\ InitMon /\ InitTx /\ InitDb

NextIn == Put

SpecIn == Init /\ [][NextIn]_vars

\* smsdb_put with the failures of the storage engine
NextInErr ==
    \/ Put
    \/ PutFail

SpecInErr == Init /\ [][NextInErr]_vars

\* smsdb_put while the clock passes the time to live of the parts
NextInExp ==
    \/ PutText("Hel")
    \/ TickPast

SpecInExp == Init /\ [][NextInExp]_vars

NextRef == GetRefid

SpecRef == Init /\ [][NextRef]_vars

\* the delivery-tracking calls; no call reads the clock except get_expired
NextOut ==
    \/ OutgoingAdd
    \/ OutgoingPartPut
    \/ OutgoingPartStatus
    \/ OutgoingClear

SpecOut == Init /\ [][NextOut]_vars

\* the same with the clock and the expiry sweep
NextExp ==
    \/ OutgoingAdd
    \/ OutgoingPartPut
    \/ OutgoingPurgeOne
    \/ Tick

SpecExp == Init /\ [][NextExp]_vars

\* the module is loaded and unloaded
NextInit ==
    \/ SmsdbInit
    \/ SmsdbAtexit

SpecInit == Init /\ [][NextInit]_vars

\* the store calls of concurrent threads, and the clock
NextTx ==
    \/ \E t \in Threads : TxBegin(t)
    \/ \E t \in Threads : TxCommit(t)
    \/ Tick

SpecTx == Init /\ [][NextTx]_vars

NextMon ==
    \/ MonAcquire
    \/ MonStep
    \/ WorkerStep
    \/ OwnerStep

SpecMon == Init /\ [][NextMon]_vars

\* every thread keeps running, every wait returns, a blocked ast_mutex_lock is
\* served when the lock is free again and again, and so is the try-lock at
\* the top of the loop
SpecMonFair ==
    /\ SpecMon
    /\ WF_vars(MonStep)
    /\ SF_vars(MonAcquire)
    /\ WF_vars(WorkerStep)
    /\ WF_vars(Owner_Unlock \/ Stop_Enter)
    /\ SF_vars(Stop_Relock)
    /\ WF_vars(StopStep)

=============================================================================
